---- MODULE Spec2Model ----
(***************************************************************************)
(* Model of runcher's actions panel, src/runcher/src/actions_ui/mod.rs:    *)
(* ActionsUI::new (template loading and widget lookup) and                 *)
(* ActionsUI::new_launch_script_option (the per-script panel: master       *)
(* toggle, preset selector, parameter controls, all wired to the settings  *)
(* store).                                                                 *)
(*                                                                         *)
(* Strings that the code inspects (setting values, preset names, default   *)
(* values) are sequences of one-character strings; settings keys, which    *)
(* the code only builds with format! and compares, are TLA+ strings.       *)
(***************************************************************************)
EXTENDS Integers, Sequences, FiniteSets

\* ------------------------------------------------------------------------
\* Bounds of the model.

\* Longest list of presets handed to new_launch_script_option.
MaxPresets == 2

\* ------------------------------------------------------------------------
\* Characters and strings.

Digits == <<"0", "1", "2", "3", "4", "5", "6", "7", "8", "9">>
UpperCase == <<"A", "B", "C", "D", "E", "F", "G", "H", "I", "J", "K", "L", "M",
               "N", "O", "P", "Q", "R", "S", "T", "U", "V", "W", "X", "Y", "Z">>
LowerCase == <<"a", "b", "c", "d", "e", "f", "g", "h", "i", "j", "k", "l", "m",
               "n", "o", "p", "q", "r", "s", "t", "u", "v", "w", "x", "y", "z">>

IsDigit(c) == \E i \in 1..10 : Digits[i] = c
DigitVal(c) == (CHOOSE i \in 1..10 : Digits[i] = c) - 1
ToLowerChar(c) ==
    IF \E i \in 1..26 : UpperCase[i] = c
    THEN LowerCase[CHOOSE i \in 1..26 : UpperCase[i] = c]
    ELSE c
ToLower(s) == [i \in 1..Len(s) |-> ToLowerChar(s[i])]

RECURSIVE TrimLeft(_)
TrimLeft(s) == IF s # <<>> /\ Head(s) = " " THEN TrimLeft(Tail(s)) ELSE s
RECURSIVE TrimRight(_)
TrimRight(s) ==
    IF s # <<>> /\ s[Len(s)] = " " THEN TrimRight(SubSeq(s, 1, Len(s) - 1)) ELSE s
Trim(s) == TrimRight(TrimLeft(s))

RECURSIVE NatToChars(_)
NatToChars(n) ==
    IF n < 10 THEN <<Digits[n + 1]>>
    ELSE NatToChars(n \div 10) \o <<Digits[(n % 10) + 1]>>
IntToChars(n) == IF n < 0 THEN <<"-">> \o NatToChars(0 - n) ELSE NatToChars(n)

I32Max == 2147483647

NoParse == [ok |-> FALSE, v |-> 0]

\* Accumulates the digits of s onto the magnitude acc; limit is the largest
\* magnitude the sign allows (I32Max, or I32Max + 1 for a negative number,
\* passed as I32Max with oneMore = 1 so that no intermediate value leaves
\* the 32-bit range).
RECURSIVE ParseDigits(_, _, _)
ParseDigits(s, acc, oneMore) ==
    IF s = <<>> THEN [ok |-> TRUE, v |-> acc]
    ELSE IF ~IsDigit(Head(s)) THEN NoParse
    ELSE LET d == DigitVal(Head(s))
             \* acc * 10 + d <= I32Max + oneMore, computed without overflow
             fits == \/ acc < I32Max \div 10
                     \/ acc = I32Max \div 10 /\ d <= (I32Max % 10) + oneMore
         IN  IF ~fits THEN NoParse
             ELSE IF acc = I32Max \div 10 /\ d = (I32Max % 10) + 1
                  THEN (IF Tail(s) = <<>> THEN [ok |-> TRUE, v |-> -1] ELSE NoParse)
                  ELSE ParseDigits(Tail(s), acc * 10 + d, oneMore)

\* str::parse::<i32>: an optional sign, then one or more decimal digits, the
\* value within the i32 range.
ParseI32(s) ==
    IF s = <<>> THEN NoParse
    ELSE IF Head(s) = "-"
         THEN IF Tail(s) = <<>> THEN NoParse
              ELSE LET r == ParseDigits(Tail(s), 0, 1)
                   IN  IF ~r.ok THEN NoParse
                       ELSE IF r.v = -1 THEN [ok |-> TRUE, v |-> (0 - I32Max) - 1]
                       ELSE [ok |-> TRUE, v |-> 0 - r.v]
         ELSE LET t == IF Head(s) = "+" THEN Tail(s) ELSE s
              IN  IF t = <<>> THEN NoParse ELSE ParseDigits(t, 0, 0)

TrueText == <<"t", "r", "u", "e">>
FalseText == <<"f", "a", "l", "s", "e">>

\* str::parse::<bool>: exactly "true" or "false".
ParseBool(s) ==
    IF s = TrueText THEN [ok |-> TRUE, v |-> TRUE]
    ELSE IF s = FalseText THEN [ok |-> TRUE, v |-> FALSE]
    ELSE [ok |-> FALSE, v |-> FALSE]

\* ------------------------------------------------------------------------
\* f32 values.  A finite f32 is [n, e] with value n * 2^(e - 23): n = 0 for
\* zero, otherwise 2^23 <= |n| < 2^24 (24 significant bits, n signed).

F32Zero == [n |-> 0, e |-> 0]

TwoTo23 == 8388608
TwoTo24 == 16777216

\* Quotient of num / den rounded to nearest, ties to even (num, den > 0).
RoundHalfEven(num, den) ==
    LET q == num \div den
        r == num % den
    IN  IF r > den - r THEN q + 1
        ELSE IF r < den - r THEN q
        ELSE IF q % 2 = 0 THEN q ELSE q + 1

\* The binary exponent of k / 100 (k > 0): the e with 2^e <= k/100 < 2^(e+1).
F32Exponent(k) ==
    IF k >= 100
    THEN CHOOSE e \in 0..23 : 2^e <= k \div 100 /\ k \div 100 < 2^(e + 1)
    ELSE 0 - (CHOOSE j \in 1..7 : k * 2^j >= 100 /\ k * 2^(j - 1) < 100)

\* `x as f32` for the f64 nearest to k / 100, 0 <= k < 100 * 2^24: round to
\* 24 significant bits, ties to even.
F32FromHundredths(k) ==
    IF k = 0 THEN F32Zero
    ELSE LET e == F32Exponent(k)
             m == RoundHalfEven(k * 2^(23 - e), 100)
         IN  IF m = TwoTo24 THEN [n |-> TwoTo23, e |-> e + 1] ELSE [n |-> m, e |-> e]

F32Neg(f) == [n |-> 0 - f.n, e |-> f.e]

\* `x as f32` for an integer x, |x| < 2^24 / 100.
F32FromInt(i) ==
    IF i < 0 THEN F32Neg(F32FromHundredths(100 * (0 - i))) ELSE F32FromHundredths(100 * i)

\* The f32 f (f >= 0) times 100, rounded to an integer: what `f as f64`
\* becomes when a control with two decimals takes it.  Saturates at sat, which
\* the caller's range never exceeds.
F32ToHundredths(f, sat) ==
    IF f.n <= 0 THEN 0
    ELSE IF f.e > 6 THEN sat
    ELSE IF f.e < -8 THEN 0
    ELSE IF f.e = -8 THEN (IF f.n >= 10737419 THEN 1 ELSE 0)
    ELSE RoundHalfEven(f.n * 100, 2^(23 - f.e))

\* qRound of an f32: nearest integer, ties away from zero (|f| < 2^24).
F32Round(f) ==
    LET a == IF f.n < 0 THEN 0 - f.n ELSE f.n
        r == IF a = 0 THEN 0
             ELSE IF f.e < -1 THEN 0
             ELSE IF f.e = -1 THEN 1
             ELSE LET d == 2^(23 - f.e)
                  IN  (a \div d) + (IF 2 * (a % d) >= d THEN 1 ELSE 0)
    IN  IF f.n < 0 THEN 0 - r ELSE r

\* A decimal literal: optional sign, digits, optionally "." and up to two
\* more digits, at least one digit in all.  The strings of the model carry no
\* exponent, no third fractional digit and no "inf"/"nan" spelling.
ParseDecimal(s) ==
    LET neg == s # <<>> /\ Head(s) = "-"
        t == IF s # <<>> /\ Head(s) \in {"+", "-"} THEN Tail(s) ELSE s
        dots == {i \in 1..Len(t) : t[i] = "."}
        dot == IF dots = {} THEN Len(t) + 1 ELSE CHOOSE i \in dots : \A j \in dots : i <= j
        ip == SubSeq(t, 1, dot - 1)
        fp == SubSeq(t, dot + 1, Len(t))
        wellFormed == /\ Cardinality(dots) <= 1
                      /\ Len(ip) + Len(fp) >= 1
                      /\ Len(ip) <= 5
                      /\ Len(fp) <= 2
                      /\ \A i \in 1..Len(ip) : IsDigit(ip[i])
                      /\ \A i \in 1..Len(fp) : IsDigit(fp[i])
        iv == IF ip = <<>> THEN 0 ELSE ParseDigits(ip, 0, 0).v
        fv == IF fp = <<>> THEN 0
              ELSE IF Len(fp) = 1 THEN 10 * DigitVal(fp[1])
              ELSE 10 * DigitVal(fp[1]) + DigitVal(fp[2])
    IN  IF ~wellFormed THEN [ok |-> FALSE, v |-> F32Zero]
        ELSE LET f == F32FromHundredths(100 * iv + fv)
             IN  [ok |-> TRUE, v |-> IF neg THEN F32Neg(f) ELSE f]

\* str::parse::<f32>.
ParseF32(s) == ParseDecimal(s)

\* ------------------------------------------------------------------------
\* QVariant: the values of the settings store.  One record shape for every
\* type; the fields a type does not use hold FALSE, 0 or <<>>.

VBool(b) == [t |-> "bool", b |-> b, n |-> 0, e |-> 0, s |-> <<>>]
VInt(i) == [t |-> "int", b |-> FALSE, n |-> i, e |-> 0, s |-> <<>>]
VFloat(f) == [t |-> "float", b |-> FALSE, n |-> f.n, e |-> f.e, s |-> <<>>]
VString(s) == [t |-> "string", b |-> FALSE, n |-> 0, e |-> 0, s |-> s]
\* The invalid QVariant QSettings::value returns for a key with no entry.
VInvalid == [t |-> "invalid", b |-> FALSE, n |-> 0, e |-> 0, s |-> <<>>]

FloatOf(v) == [n |-> v.n, e |-> v.e]

\* QVariant::isValid
IsValid(v) == v.t # "invalid"

\* QVariant::toBool: a string is false when its lower-case form is empty,
\* "0" or "false".
ToBool(v) ==
    CASE v.t = "bool" -> v.b
      [] v.t = "int" -> v.n # 0
      [] v.t = "float" -> v.n # 0
      [] v.t = "string" -> ToLower(v.s) \notin {<<>>, <<"0">>, FalseText}
      [] OTHER -> FALSE

\* QVariant::toInt: 0 for a string that is no integer.
ToInt(v) ==
    CASE v.t = "bool" -> (IF v.b THEN 1 ELSE 0)
      [] v.t = "int" -> v.n
      [] v.t = "float" -> F32Round(FloatOf(v))
      [] v.t = "string" -> (LET r == ParseI32(Trim(v.s)) IN IF r.ok THEN r.v ELSE 0)
      [] OTHER -> 0

\* QVariant::toFloat: 0.0 for a string that is no number.
ToFloat(v) ==
    CASE v.t = "bool" -> (IF v.b THEN F32FromInt(1) ELSE F32Zero)
      [] v.t = "int" -> F32FromInt(v.n)
      [] v.t = "float" -> FloatOf(v)
      [] v.t = "string" -> (LET r == ParseDecimal(Trim(v.s)) IN IF r.ok THEN r.v ELSE F32Zero)
      [] OTHER -> F32Zero

\* The decimal text of k hundredths with no trailing zeros ("0.25", "1.5", "12").
HundredthsToChars(k) ==
    LET ip == NatToChars(k \div 100)
        f == k % 100
    IN  IF f = 0 THEN ip
        ELSE IF f % 10 = 0 THEN ip \o <<".", Digits[(f \div 10) + 1]>>
        ELSE ip \o <<".", Digits[(f \div 10) + 1], Digits[(f % 10) + 1]>>

\* QVariant::toString.  A float prints as the shortest decimal text of its
\* value widened to f64: the exact text when the f32 is a whole number of
\* hundredths, and otherwise that text followed by further digits (written
\* "~" here: no string of the model equals it).
ToString(v) ==
    CASE v.t = "bool" -> (IF v.b THEN TrueText ELSE FalseText)
      [] v.t = "int" -> IntToChars(v.n)
      [] v.t = "float" ->
            (LET f == FloatOf(v)
                 a == IF f.n < 0 THEN F32Neg(f) ELSE f
                 k == F32ToHundredths(a, 100 * TwoTo24)
                 exact == a.e <= 6 /\ a.e >= -7 /\ (a.n * 100) % (2^(23 - a.e)) = 0
                 txt == IF exact THEN HundredthsToChars(k) ELSE HundredthsToChars(k) \o <<"~">>
             IN  IF f.n < 0 THEN <<"-">> \o txt ELSE txt)
      [] v.t = "string" -> v.s
      [] OTHER -> <<>>

\* ------------------------------------------------------------------------
\* The settings store: a function from the keys the panel uses to QVariant,
\* VInvalid standing for "no entry".  Keys are built as the code builds them,
\* so two format! results that coincide are one entry.

\* QSettings::value
Value(st, key) == st[key]
\* QSettings::setValue
SetValue(st, key, v) == [st EXCEPT ![key] = v]

\* rpfm_ui_common::settings accessors, each QSettings::value(key).toX().
setting_bool(st, key) == ToBool(Value(st, key))
setting_int(st, key) == ToInt(Value(st, key))
setting_f32(st, key) == ToFloat(Value(st, key))
set_setting_bool(st, key, b) == SetValue(st, key, VBool(b))
set_setting_int(st, key, i) == SetValue(st, key, VInt(i))
set_setting_f32(st, key, f) == SetValue(st, key, VFloat(f))
set_setting_string(st, key, s) == SetValue(st, key, VString(s))

\* format!("script_to_execute_{}_{}", game_key, script_key)
EnabledKey(game_key, script_key) == "script_to_execute_" \o game_key \o "_" \o script_key
\* format!("script_to_execute_{}_{}_preset", game_key, script_key)
PresetKey(game_key, script_key) ==
    "script_to_execute_" \o game_key \o "_" \o script_key \o "_preset"
\* format!("script_to_execute_{}_{}_{}", game_key, script_key, param_key)
ParamSettingKey(game_key, script_key, param_key) ==
    "script_to_execute_" \o game_key \o "_" \o script_key \o "_" \o param_key

\* ------------------------------------------------------------------------
\* Widgets.

NoPresetText == <<"N", "o", " ", "P", "r", "e", "s", "e", "t">>

\* QSpinBox and QDoubleSpinBox as constructed, no range set: 0 to 99, and 0.00
\* to 99.99 with two decimals (held in hundredths).
SpinBoxMax == 99
DoubleSpinBoxMax == 9999

Clamp(v, lo, hi) == IF v < lo THEN lo ELSE IF v > hi THEN hi ELSE v

\* QSpinBox::setValue
SpinSetValue(i) == Clamp(i, 0, SpinBoxMax)
\* QDoubleSpinBox::setValue(f as f64): rounded to the two decimals, bounded.
DoubleSpinSetValue(f) == Clamp(F32ToHundredths(f, DoubleSpinBoxMax), 0, DoubleSpinBoxMax)

\* FindText, returning the last item with that text.
FindText_Last(items, text) ==
    LET hits == {i \in 1..Len(items) : items[i] = text}
    IN  IF hits = {} THEN -1 ELSE (CHOOSE i \in hits : \A j \in hits : i >= j) - 1

\* QComboBox::findText: the index of the first item with that text, -1 if none.
FindText(items, text) ==
    LET hits == {i \in 1..Len(items) : items[i] = text}
    IN  IF hits = {} THEN -1 ELSE (CHOOSE i \in hits : \A j \in hits : i <= j) - 1

\* QComboBox::setCurrentText on a non-editable combo: moves to the item with
\* that text when there is one, and otherwise leaves the index alone.
SetCurrentText(items, index, text) ==
    LET i == FindText(items, text) IN IF i > -1 THEN i ELSE index

\* QComboBox::itemText
ItemText(items, index) ==
    IF index >= 0 /\ index < Len(items) THEN items[index + 1] ELSE <<>>

\* The value a control holds: b for a checkbox, n for a spin box (an integer,
\* or hundredths for the decimal one).
BoolControl(b) == [b |-> b, n |-> 0]
NumControl(n) == [b |-> FALSE, n |-> n]

\* The six elements line 254-261 hides for an automatic script.
PanelElements ==
    {"label_icon", "label_text", "label_fill", "checkbox", "presets_container",
     "params_container"}

\* The panel before new_launch_script_option has run.
NoPanel ==
    [built |-> FALSE,
     has_combo |-> FALSE,
     combo_items |-> <<>>,
     combo_index |-> -1,
     combo_visible |-> FALSE,
     preset_label_visible |-> FALSE,
     there_are_presets |-> FALSE,
     presets_enabled |-> FALSE,
     params_enabled |-> FALSE,
     controls |-> <<>>,
     checked |-> FALSE,
     visible |-> [w \in PanelElements |-> FALSE]]

\* ------------------------------------------------------------------------
\* ActionsUI::new_launch_script_option, piece by piece.  A script is
\* [key, parameters, automatic], a parameter [key, type, default_value], a
\* preset [name].  Every piece that touches the store returns the store too.

\* The selector's entries: "No Preset", then the preset names in input order.
ComboItems(presets) == <<NoPresetText>> \o [i \in 1..Len(presets) |-> presets[i].name]

\* The selector's index once the persisted choice has been applied to a combo
\* standing at its first entry: setCurrentText runs only for a valid,
\* non-empty setting.
RestoredIndex(items, setting) ==
    IF IsValid(setting) /\ ToString(setting) # <<>>
    THEN SetCurrentText(items, 0, ToString(setting))
    ELSE 0

\* The preset part of the panel.  The index-changed slot is connected after
\* the index has been restored, so it does not run here.
PresetSection(game_key, script, presets, st) ==
    IF script.parameters = <<>>
    THEN [has_combo |-> FALSE, combo_items |-> <<>>, combo_index |-> -1,
          combo_visible |-> FALSE, preset_label_visible |-> FALSE,
          there_are_presets |-> FALSE, is_preset_selected |-> FALSE, settings |-> st]
    ELSE IF presets = <<>>
    THEN [has_combo |-> TRUE, combo_items |-> <<NoPresetText>>, combo_index |-> 0,
          combo_visible |-> FALSE, preset_label_visible |-> FALSE,
          there_are_presets |-> FALSE, is_preset_selected |-> FALSE, settings |-> st]
    ELSE LET setting_key == PresetKey(game_key, script.key)
             items == ComboItems(presets)
             index == RestoredIndex(items, Value(st, setting_key))
         IN  [has_combo |-> TRUE, combo_items |-> items, combo_index |-> index,
              combo_visible |-> TRUE, preset_label_visible |-> TRUE,
              there_are_presets |-> TRUE, is_preset_selected |-> index # 0,
              settings |-> IF index # 0 THEN st
                           ELSE set_setting_string(st, setting_key, <<>>)]

\* InitialParamsEnabled without the `!there_are_presets ||` alternative.
InitialParamsEnabled_PresetsOnly(there_are_presets, is_preset_selected) ==
    there_are_presets /\ ~is_preset_selected

\* params_container.set_enabled(...) right after the preset part.
InitialParamsEnabled(there_are_presets, is_preset_selected) ==
    ~there_are_presets \/ (there_are_presets /\ ~is_preset_selected)

\* parse::<T>().unwrap_or_default()
DefaultBool(s) == LET r == ParseBool(s) IN IF r.ok THEN r.v ELSE FALSE
DefaultI32(s) == LET r == ParseI32(s) IN IF r.ok THEN r.v ELSE 0
DefaultF32(s) == LET r == ParseF32(s) IN IF r.ok THEN r.v ELSE F32Zero

\* The control of one parameter and its initial value.
ControlInit(game_key, script_key, param, st) ==
    LET setting == ParamSettingKey(game_key, script_key, param.key)
        use_default == ~IsValid(Value(st, setting))
    IN  CASE param.type = "Bool" ->
               BoolControl(IF use_default THEN DefaultBool(param.default_value)
                           ELSE setting_bool(st, setting))
          [] param.type = "Integer" ->
               NumControl(SpinSetValue(IF use_default THEN DefaultI32(param.default_value)
                                       ELSE setting_int(st, setting)))
          [] param.type = "Float" ->
               NumControl(DoubleSpinSetValue(IF use_default
                                             THEN DefaultF32(param.default_value)
                                             ELSE setting_f32(st, setting)))

\* ToggledSlot without the write of the toggle's state to the store.
ToggledSlot_NoPersist(game_key, script_key, p, st, state) ==
    LET preset_setting == ToString(Value(st, PresetKey(game_key, script_key)))
    IN  [panel |-> [p EXCEPT
                      !.presets_enabled = state,
                      !.params_enabled =
                          ~p.there_are_presets
                          \/ (p.there_are_presets /\ preset_setting = <<>>)],
         settings |-> st]

\* The master toggle's toggled(state) slot.
ToggledSlot(game_key, script_key, p, st, state) ==
    LET setting == EnabledKey(game_key, script_key)
        preset_setting_key == PresetKey(game_key, script_key)
        preset_setting == ToString(Value(st, preset_setting_key))
    IN  [panel |-> [p EXCEPT
                      !.presets_enabled = state,
                      !.params_enabled =
                          ~p.there_are_presets
                          \/ (p.there_are_presets /\ preset_setting = <<>>)],
         settings |-> set_setting_bool(st, setting, state)]

\* QAbstractButton::setChecked: toggled is emitted only when the state changes.
SetChecked(game_key, script_key, p, st, checked) ==
    IF p.checked = checked THEN [panel |-> p, settings |-> st]
    ELSE ToggledSlot(game_key, script_key, [p EXCEPT !.checked = checked], st, checked)

\* The preset selector's currentIndexChanged(value) slot.
IndexChangedSlot(game_key, script_key, p, st, value) ==
    LET setting_key == PresetKey(game_key, script_key)
    IN  [panel |-> [p EXCEPT !.params_enabled = (value = 0)],
         settings |-> set_setting_string(st, setting_key, ItemText(p.combo_items, value))]

\* InitialChecked that forgets the automatic flag.
InitialChecked_NoAutomatic(is_enabled, automatic) == is_enabled

\* What the checkbox is set to at the end of construction.
InitialChecked(is_enabled, automatic) == is_enabled \/ automatic

\* InitialVisible that leaves the checkbox of an automatic script shown.
InitialVisible_CheckboxShown(automatic) ==
    [w \in PanelElements |-> IF w = "checkbox" THEN TRUE ELSE ~automatic]

\* Visibility of the six elements after lines 254-261.
InitialVisible(automatic) == [w \in PanelElements |-> ~automatic]

\* The whole of new_launch_script_option: the panel it builds and the store
\* it leaves.
new_launch_script_option(game_key, script, presets, st) ==
    LET ps == PresetSection(game_key, script, presets, st)
        st1 == ps.settings
        controls == [i \in 1..Len(script.parameters) |->
                        ControlInit(game_key, script.key, script.parameters[i], st1)]
        is_enabled == setting_bool(st1, EnabledKey(game_key, script.key))
        p == [built |-> TRUE,
              has_combo |-> ps.has_combo,
              combo_items |-> ps.combo_items,
              combo_index |-> ps.combo_index,
              combo_visible |-> ps.combo_visible,
              preset_label_visible |-> ps.preset_label_visible,
              there_are_presets |-> ps.there_are_presets,
              presets_enabled |-> FALSE,
              params_enabled |->
                  InitialParamsEnabled(ps.there_are_presets, ps.is_preset_selected),
              controls |-> controls,
              checked |-> FALSE,
              visible |-> InitialVisible(script.automatic)]
    IN  SetChecked(game_key, script.key, p, st1,
                   InitialChecked(is_enabled, script.automatic))

\* The value-changed slot of a parameter's control: value is the checkbox
\* state, the spin box's integer, or the decimal spin box's value in
\* hundredths (an f64 the slot narrows with `as f32`).
ParamChangedSlot(game_key, script_key, param, st, value) ==
    LET setting == ParamSettingKey(game_key, script_key, param.key)
    IN  CASE param.type = "Bool" -> set_setting_bool(st, setting, value.b)
          [] param.type = "Integer" -> set_setting_int(st, setting, value.n)
          [] param.type = "Float" -> set_setting_f32(st, setting, F32FromHundredths(value.n))

\* ------------------------------------------------------------------------
\* ActionsUI::new: the template is loaded, then the named widgets are looked
\* up in this order, each lookup returning early with its error (`?`).

WidgetNames ==
    <<"play_button", "settings_button", "folders_button", "copy_load_order_button",
      "paste_load_order_button", "reload_button", "download_subscribed_mods_button",
      "profile_load_button", "profile_save_button", "profile_manager_button",
      "profile_combobox", "save_combobox">>

\* The entries new adds to the play button's menu, in order: nine launch
\* options, then the scripts container.
PlayMenuActions ==
    <<"enable_logging", "enable_skip_intro", "remove_trait_limit", "remove_siege_attacker",
      "enable_translations", "merge_all_mods", "unit_multiplier", "universal_rebalancer",
      "enable_dev_only_ui", "scripts_container">>

\* The icon themes QIcon::from_theme can resolve against, and the one in
\* force while new runs.
Themes == {"breeze", "breeze-dark"}
InitialTheme == "breeze"

\* The pixmap of an icon label: the icon key and the theme it was taken from.
\* The scripts container has no icon label.
Pixmap(icon_key, theme) == [icon_key |-> icon_key, theme |-> theme]
NoPixmap == [icon_key |-> "", theme |-> ""]

\* The icon_key new passes to new_launch_option for each launch option, in
\* menu order.
NewIconKeys ==
    <<"verb", "kdenlive-hide-video", "folder-unlocked-symbolic", "folder-unlocked-symbolic",
      "language-chooser", "merge", "view-time-schedule-calculus",
      "view-time-schedule-calculus", "verb">>

\* new_launch_option: the label at position (0, 0) gets the icon's pixmap.
new_launch_option(icon_key, theme) == Pixmap(icon_key, theme)

\* The icon labels of the play menu's entries after new.
NewIcons(theme) ==
    [i \in 1..Len(PlayMenuActions) |->
        IF i <= Len(NewIconKeys) THEN new_launch_option(NewIconKeys[i], theme)
        ELSE NoPixmap]

\* update_icons: the icon fetched for each match arm, by menu action index.
UpdateIconKey(index) ==
    CASE index = 0 -> "verb"
      [] index = 1 -> "kdenlive-hide-video"
      [] index = 2 -> "folder-unlocked-symbolic"
      [] index = 3 -> "folder-unlocked-symbolic"
      [] index = 4 -> "language-chooser"
      [] index = 5 -> "merge"
      [] index = 6 -> "view-time-schedule-calculus"
      [] index = 7 -> "autocorrection"
      [] index = 8 -> "verb"

\* update_icons: for index in 0..menu.actions().count(), inside `if index < 8`,
\* the match sets the label's pixmap for the arms 0 to 8 and does nothing
\* otherwise.
update_icons(icons, theme) ==
    [i \in 1..Len(icons) |->
        LET index == i - 1
        IN  IF index < 8
            THEN IF index \in 0..8 THEN Pixmap(UpdateIconKey(index), theme)
                 ELSE icons[i]
            ELSE icons[i]]

\* LookupsBeforeFailure that goes on after a failed lookup.
LookupsBeforeFailure_Skip(names, found) ==
    Cardinality({i \in 1..Len(names) : names[i] \in found})

\* How many find_widget calls succeed before the first that fails.
RECURSIVE LookupsBeforeFailure(_, _)
LookupsBeforeFailure(names, found) ==
    IF names = <<>> \/ Head(names) \notin found THEN 0
    ELSE 1 + LookupsBeforeFailure(Tail(names), found)

NoUI == [status |-> "none", error |-> "", lookups |-> 0,
         play_menu |-> <<>>, scripts_to_execute |-> <<>>,
         icons |-> <<>>, theme |-> InitialTheme]

\* The Result of new: Err carries the step that failed, and nothing built so
\* far survives it.
new(template_loads, found) ==
    LET n == LookupsBeforeFailure(WidgetNames, found)
    IN  IF ~template_loads
        THEN [status |-> "err", error |-> "load_template", lookups |-> 0,
              play_menu |-> <<>>, scripts_to_execute |-> <<>>,
              icons |-> <<>>, theme |-> InitialTheme]
        ELSE IF n < Len(WidgetNames)
        THEN [status |-> "err", error |-> WidgetNames[n + 1], lookups |-> n + 1,
              play_menu |-> <<>>, scripts_to_execute |-> <<>>,
              icons |-> <<>>, theme |-> InitialTheme]
        ELSE [status |-> "ok", error |-> "", lookups |-> n,
              play_menu |-> PlayMenuActions, scripts_to_execute |-> <<>>,
              icons |-> NewIcons(InitialTheme), theme |-> InitialTheme]

\* ------------------------------------------------------------------------
\* The inputs of the model.

GameKey == "warhammer_3"
ScriptKey == "remove_fog"

Text_abc == <<"a", "b", "c">>
Text_easy == <<"e", "a", "s", "y">>
Text_hard == <<"h", "a", "r", "d">>

\* Parameter lists of the scripts: none, one of each type, one whose key is
\* "preset", and a pair.
StrictParam == [key |-> "strict", type |-> "Bool", default_value |-> TrueText]
CountParam == [key |-> "count", type |-> "Integer", default_value |-> <<"5">>]
FactorParam == [key |-> "factor", type |-> "Float", default_value |-> <<"1", ".", "0">>]
PresetNamedParam == [key |-> "preset", type |-> "Integer", default_value |-> <<"5">>]

ParameterLists ==
    {<<>>, <<StrictParam>>, <<CountParam>>, <<FactorParam>>, <<PresetNamedParam>>,
     <<StrictParam, CountParam>>}

Scripts ==
    {[key |-> ScriptKey, parameters |-> ps, automatic |-> a] :
        ps \in ParameterLists, a \in BOOLEAN}

Presets == {[name |-> Text_easy], [name |-> Text_hard], [name |-> NoPresetText]}
PresetLists == UNION {[1..n -> Presets] : n \in 0..MaxPresets}

\* The settings keys a script's panel reads or writes.
Keys(script) ==
    {EnabledKey(GameKey, script.key), PresetKey(GameKey, script.key)}
    \cup {ParamSettingKey(GameKey, script.key, script.parameters[i].key) :
             i \in 1..Len(script.parameters)}

\* What the store may hold under a key when the program starts: nothing,
\* what an earlier session wrote (read back from the settings file as text),
\* or text that is no value of the expected type.
EnabledValues == {VInvalid, VBool(FALSE), VString(TrueText), VString(FalseText)}
PresetValues ==
    {VInvalid, VString(<<>>), VString(Text_easy), VString(Text_hard), VString(NoPresetText)}
ParamValues(type) ==
    CASE type = "Bool" -> {VInvalid, VString(FalseText), VString(Text_abc)}
      [] type = "Integer" -> {VInvalid, VString(<<"7">>), VString(Text_abc)}
      [] type = "Float" -> {VInvalid, VString(<<"0", ".", "2", "5">>), VString(Text_abc)}

InitialValues(script, key) ==
    (IF key = EnabledKey(GameKey, script.key) THEN EnabledValues ELSE {})
    \cup (IF key = PresetKey(GameKey, script.key) THEN PresetValues ELSE {})
    \cup UNION {IF key = ParamSettingKey(GameKey, script.key, script.parameters[i].key)
                THEN ParamValues(script.parameters[i].type) ELSE {} :
                    i \in 1..Len(script.parameters)}

\* Every store over keys whose entries are initial values of their keys.
RECURSIVE StoresOver(_, _)
StoresOver(script, keys) ==
    IF keys = {} THEN {[k \in {} |-> VInvalid]}
    ELSE LET key == CHOOSE k \in keys : TRUE
         IN  {[k \in DOMAIN st \cup {key} |-> IF k = key THEN v ELSE st[k]] :
                 st \in StoresOver(script, keys \ {key}), v \in InitialValues(script, key)}

InitialStores(script) == StoresOver(script, Keys(script))

\* What the user can put into a control.
UserValues(type) ==
    CASE type = "Bool" -> {BoolControl(FALSE), BoolControl(TRUE)}
      [] type = "Integer" -> {NumControl(0), NumControl(7), NumControl(SpinBoxMax)}
      [] type = "Float" -> {NumControl(0), NumControl(10), NumControl(DoubleSpinBoxMax)}

\* The templates new may be given: whether the file loads, and which of the
\* named widgets it holds (all but at most MaxMissing of them).
MaxMissing == 2
AllWidgets == {WidgetNames[i] : i \in 1..Len(WidgetNames)}
Templates ==
    {[loads |-> l, found |-> AllWidgets \ m] :
        l \in BOOLEAN, m \in {x \in SUBSET AllWidgets : Cardinality(x) <= MaxMissing}}

CompleteTemplate == [loads |-> TRUE, found |-> AllWidgets]
\* The templates of the panel's specification: the complete one, and one that
\* lacks the widget looked up last.
PanelTemplates == {CompleteTemplate, [loads |-> TRUE, found |-> AllWidgets \ {"save_combobox"}]}

\* ------------------------------------------------------------------------
\* State.

VARIABLES
    template,   \* the UI template on disk
    script,     \* the script descriptor the panel is built for
    presets,    \* the presets supplied with it
    settings,   \* the settings store
    ui,         \* the Result of ActionsUI::new
    panel,      \* the widgets of the script's panel
    last        \* the operation that ran last, and the entry or control it was given

vars == <<template, script, presets, settings, ui, panel, last>>

Init ==
    /\ template \in PanelTemplates
    /\ script \in Scripts
    /\ settings \in InitialStores(script)
    /\ presets \in PresetLists
    /\ ui = NoUI
    /\ panel = NoPanel
    /\ last = [op |-> "init", arg |-> 0]

\* ActionsUI::new
New ==
    /\ ui.status = "none"
    /\ ui' = new(template.loads, template.found)
    /\ last' = [op |-> "new", arg |-> 0]
    /\ UNCHANGED <<template, script, presets, settings, panel>>

\* ActionsUI::new_launch_script_option on the constructed ActionsUI; a later
\* call rebuilds the panel from the store as it then is.
Build ==
    /\ ui.status = "ok"
    /\ LET r == new_launch_script_option(GameKey, script, presets, settings)
       IN  /\ panel' = r.panel
           /\ settings' = r.settings
    /\ last' = [op |-> "build", arg |-> 0]
    /\ UNCHANGED <<template, script, presets, ui>>

\* The user clicks the master toggle (it has to be shown).
Toggle ==
    /\ panel.built
    /\ panel.visible["checkbox"]
    /\ LET r == SetChecked(GameKey, script.key, panel, settings, ~panel.checked)
       IN  /\ panel' = r.panel
           /\ settings' = r.settings
    /\ last' = [op |-> "toggle", arg |-> 0]
    /\ UNCHANGED <<template, script, presets, ui>>

\* The user picks another entry of the preset selector (it has to be shown and
\* enabled, which it is when its container is).
SelectPreset ==
    /\ panel.built
    /\ panel.has_combo /\ panel.combo_visible
    /\ panel.visible["presets_container"] /\ panel.presets_enabled
    /\ \E value \in 0..(Len(panel.combo_items) - 1) :
          /\ value # panel.combo_index
          /\ LET r == IndexChangedSlot(GameKey, script.key,
                                       [panel EXCEPT !.combo_index = value], settings, value)
             IN  /\ panel' = r.panel
                 /\ settings' = r.settings
          /\ last' = [op |-> "select", arg |-> value]
    /\ UNCHANGED <<template, script, presets, ui>>

\* The user changes the value of a parameter's control (its container has to
\* be shown and enabled).
ChangeParam ==
    /\ panel.built
    /\ panel.visible["params_container"] /\ panel.params_enabled
    /\ \E i \in 1..Len(script.parameters) :
          \E value \in UserValues(script.parameters[i].type) :
             /\ value # panel.controls[i]
             /\ panel' = [panel EXCEPT !.controls[i] = value]
             /\ settings' = ParamChangedSlot(GameKey, script.key, script.parameters[i],
                                             settings, value)
             /\ last' = [op |-> "param", arg |-> i]
    /\ UNCHANGED <<template, script, presets, ui>>

\* ActionsUI::update_icons, called under the icon theme then in force.
\* It reads and writes the play menu's icon labels only, so it is composed
\* with new in SpecIcons and left out of the panel's Next.
UpdateIcons ==
    /\ ui.status = "ok"
    /\ \E theme \in Themes :
          ui' = [ui EXCEPT !.icons = update_icons(ui.icons, theme), !.theme = theme]
    /\ last' = [op |-> "icons", arg |-> 0]
    /\ UNCHANGED <<template, script, presets, settings, panel>>

Next == New \/ Build \/ Toggle \/ SelectPreset \/ ChangeParam

Spec == Init /\ [][Next]_vars

\* ActionsUI::new alone, over every template: the panel's inputs are held at
\* one value.
InitNew ==
    /\ template \in Templates
    /\ script = [key |-> ScriptKey, parameters |-> <<>>, automatic |-> FALSE]
    /\ presets = <<>>
    /\ settings = [k \in Keys(script) |-> VInvalid]
    /\ ui = NoUI
    /\ panel = NoPanel
    /\ last = [op |-> "init", arg |-> 0]

NextNew == New

SpecNew == InitNew /\ [][NextNew]_vars

\* ActionsUI::new followed by calls of update_icons, over every template.
NextIcons == New \/ UpdateIcons

SpecIcons == InitNew /\ [][NextIcons]_vars

\* ------------------------------------------------------------------------
\* Claims.

\* "Presets available": the script has a parameter and a preset was supplied.
PresetsAvailable == script.parameters # <<>> /\ presets # <<>>

\* No parameter's setting shares the key of the preset setting.
NoKeyClash ==
    \A i \in 1..Len(script.parameters) :
        ParamSettingKey(GameKey, script.key, script.parameters[i].key)
            # PresetKey(GameKey, script.key)

\* C1 (as claimed; refuted): once the panel is built, and after any selections
\* and toggles, the parameter controls are enabled if and only if it is not
\* the case that presets are available and the selector is off the sentinel
\* entry 0.  Stated for scripts none of whose parameters shares the preset
\* setting's key, so that only selections and toggles bear on it.
C1_EnablementInvariant ==
    (panel.built /\ NoKeyClash) =>
        (panel.params_enabled <=> ~(PresetsAvailable /\ panel.combo_index # 0))

\* C2 (as claimed; refuted): right after a selection the persisted preset
\* setting is the text of the selected preset, or the empty string for the
\* sentinel entry 0; so it is empty exactly when the selector is on the
\* sentinel.
C2_SelectionPersisted ==
    last.op = "select" =>
        LET stored == ToString(Value(settings, PresetKey(GameKey, script.key)))
        IN  /\ stored = (IF panel.combo_index = 0 THEN <<>>
                         ELSE presets[panel.combo_index].name)
            /\ (stored = <<>> <=> panel.combo_index = 0)

\* C3: new_launch_script_option returns the master toggle checked if and only
\* if the enabled setting persisted before the call reads true or the script
\* is automatic.
C3_InitialToggle ==
    [][Build =>
         (panel'.checked <=>
             (ToBool(settings[EnabledKey(GameKey, script.key)]) \/ script.automatic))]_vars

\* C3 witness: a script that is not automatic has just been built with its
\* toggle checked, from a store whose enabled setting read true.
C3_Witness ==
    /\ last.op = "build"
    /\ ~script.automatic
    /\ panel.checked

\* C4: for an automatic script, in every state after construction the master
\* toggle is checked, the six elements of the panel are hidden, and no user
\* event (toggle, selection, parameter change) is possible.
C4_AutomaticHidden ==
    (panel.built /\ script.automatic) =>
        /\ panel.checked
        /\ \A w \in PanelElements : ~panel.visible[w]
        /\ ~ENABLED Toggle
        /\ ~ENABLED SelectPreset
        /\ ~ENABLED ChangeParam

\* C4 witness: an automatic script with parameters and presets has been built.
C4_Witness ==
    /\ panel.built
    /\ script.automatic
    /\ PresetsAvailable

\* A script with parameters and no presets.
ParamsNoPresets == script.parameters # <<>> /\ presets = <<>>

\* C5 (as claimed; refuted): for a script with parameters and no presets the
\* selector and its label exist but are not shown, and the parameter controls
\* are enabled exactly in the states where the master toggle is checked.
C5_Original ==
    (panel.built /\ ParamsNoPresets) =>
        /\ panel.has_combo /\ ~panel.combo_visible /\ ~panel.preset_label_visible
        /\ (panel.params_enabled <=> panel.checked)

\* C5 (amended): for a script with parameters and no presets the selector and
\* its label exist but are not shown, and the parameter controls are enabled
\* in every state after construction, with the toggle checked or unchecked.
C5_Amended ==
    (panel.built /\ ParamsNoPresets) =>
        /\ panel.has_combo /\ ~panel.combo_visible /\ ~panel.preset_label_visible
        /\ panel.params_enabled

\* C5 witness: such a script's toggle has just been switched off, and its
\* parameter controls are enabled.
C5_Witness ==
    /\ panel.built /\ ParamsNoPresets
    /\ last.op = "toggle"
    /\ ~panel.checked
    /\ panel.params_enabled

\* C6 (as claimed; refuted): when the user has set a parameter's control to a
\* value and the panel is then rebuilt from the same store, the rebuilt
\* control holds that value.
C6_RoundTrip ==
    [][(last.op = "param" /\ Build) =>
          panel'.controls[last.arg] = panel.controls[last.arg]]_vars

\* A stored value that is text of no value of the parameter's type.
Malformed(param, v) ==
    /\ v.t = "string"
    /\ CASE param.type = "Bool" -> ToLower(Trim(v.s)) \notin {TrueText, FalseText, <<"0">>, <<"1">>}
         [] param.type = "Integer" -> ~ParseI32(Trim(v.s)).ok
         [] param.type = "Float" -> ~ParseDecimal(Trim(v.s)).ok

\* The control a parameter gets when its key has no entry.
ControlFromDefault(param) ==
    CASE param.type = "Bool" -> BoolControl(DefaultBool(param.default_value))
      [] param.type = "Integer" -> NumControl(SpinSetValue(DefaultI32(param.default_value)))
      [] param.type = "Float" -> NumControl(DoubleSpinSetValue(DefaultF32(param.default_value)))

\* C7 (as claimed; refuted): a control whose key holds a malformed value is
\* initialised from the parameter's default value, as if the key had no entry.
C7_MalformedAsAbsent ==
    last.op = "build" =>
        \A i \in 1..Len(script.parameters) :
            LET param == script.parameters[i]
                v == Value(settings, ParamSettingKey(GameKey, script.key, param.key))
            IN  Malformed(param, v) => panel.controls[i] = ControlFromDefault(param)

\* The selector's entries as the claim lists them: entry 0 is "No Preset",
\* entry j the name of the j-th preset.
Entry(j) == IF j = 0 THEN NoPresetText ELSE presets[j].name

\* C8 (as claimed; refuted): built for a script with parameters and presets,
\* the selector holds "No Preset" and then the preset names; it stands at the
\* entry of any preset whose name equals the persisted preset setting, and at
\* entry 0 when the setting is absent, empty or no preset's name.  Off entry 0
\* the parameter controls are disabled and the setting is as it was; on entry
\* 0 the setting is the empty string.
C8_Original ==
    [][(Build /\ PresetsAvailable) =>
          LET key == PresetKey(GameKey, script.key)
              old == settings[key]
              txt == ToString(old)
              index == panel'.combo_index
          IN  /\ panel'.combo_items = [j \in 1..(Len(presets) + 1) |-> Entry(j - 1)]
              /\ \A i \in 1..Len(presets) :
                    (IsValid(old) /\ presets[i].name = txt) => index = i
              /\ (~IsValid(old) \/ txt = <<>>
                    \/ \A i \in 1..Len(presets) : presets[i].name # txt) => index = 0
              /\ index # 0 => (~panel'.params_enabled /\ settings'[key] = old)
              /\ index = 0 => settings'[key] = VString(<<>>)]_vars

\* C8 (amended): as C8, except that the selector stands at the first entry,
\* "No Preset" included, whose text equals the persisted preset setting when
\* that setting is present, not empty and the text of an entry, and at entry 0
\* otherwise.
C8_Amended ==
    [][(Build /\ PresetsAvailable) =>
          LET key == PresetKey(GameKey, script.key)
              old == settings[key]
              txt == ToString(old)
              index == panel'.combo_index
              hits == {j \in 0..Len(presets) : Entry(j) = txt}
          IN  /\ panel'.combo_items = [j \in 1..(Len(presets) + 1) |-> Entry(j - 1)]
              /\ (IsValid(old) /\ txt # <<>> /\ hits # {}) =>
                    (index \in hits /\ \A j \in hits : index <= j)
              /\ (~IsValid(old) \/ txt = <<>> \/ hits = {}) => index = 0
              /\ index # 0 => (~panel'.params_enabled /\ settings'[key] = old)
              /\ index = 0 => settings'[key] = VString(<<>>)]_vars

\* C8 witness: a panel has just been built with the selector restored to its
\* third entry, the second preset, and the parameter controls disabled.
C8_Witness ==
    /\ last.op = "build"
    /\ PresetsAvailable
    /\ panel.combo_index = 2
    /\ ~panel.params_enabled
    /\ Value(settings, PresetKey(GameKey, script.key)) = VString(presets[2].name)

\* The widgets the claim names, in the order given.
C9_Widgets ==
    <<"play_button", "settings_button", "folders_button", "copy_load_order_button",
      "paste_load_order_button", "reload_button", "download_subscribed_mods_button",
      "profile_load_button", "profile_save_button", "profile_manager_button",
      "profile_combobox", "save_combobox">>

\* C9: new returns Ok exactly when the template loads and holds every named
\* widget, and then scripts_to_execute is empty; otherwise it returns the
\* error of the first step that fails, having made no later lookup.
C9_AbortsOnFirstFailure ==
    ui.status # "none" =>
        LET missing == {i \in 1..Len(C9_Widgets) : C9_Widgets[i] \notin template.found}
        IN  /\ ui.status \in {"ok", "err"}
            /\ (ui.status = "ok" <=> (template.loads /\ missing = {}))
            /\ ui.status = "ok" => ui.scripts_to_execute = <<>>
            /\ (ui.status = "err" /\ ~template.loads) =>
                  (ui.error = "load_template" /\ ui.lookups = 0)
            /\ (ui.status = "err" /\ template.loads) =>
                  \E i \in missing :
                      /\ \A j \in missing : i <= j
                      /\ ui.error = C9_Widgets[i]
                      /\ ui.lookups = i

\* C9 witness: new has failed on reload_button with a template that also
\* lacks a widget looked up later.
C9_Witness ==
    /\ ui.status = "err"
    /\ ui.error = "reload_button"
    /\ "save_combobox" \notin template.found

\* C10: in every state after construction the preset area is enabled exactly
\* when the master toggle is checked, and the persisted enabled setting, read
\* as false when absent, equals the toggle's checked state.
C10_ToggleConsistency ==
    panel.built =>
        /\ panel.presets_enabled = panel.checked
        /\ ToBool(settings[EnabledKey(GameKey, script.key)]) = panel.checked

\* C10 witness: the toggle has just been switched off, the preset area is
\* disabled and the store holds false.
C10_Witness ==
    /\ panel.built
    /\ last.op = "toggle"
    /\ ~panel.checked
    /\ ~panel.presets_enabled
    /\ settings[EnabledKey(GameKey, script.key)] = VBool(FALSE)

\* ------------------------------------------------------------------------
\* Default initialisation: panels built from an empty store, for parameters
\* over a wider set of default_value strings.

BoolDefaults == {TrueText, FalseText, Text_abc, <<"T", "r", "u", "e">>, <<>>}
IntegerDefaults ==
    {<<"5">>, <<"0">>, <<"9", "9">>, <<"1", "5", "0">>, <<"-", "5">>, <<"+", "7">>,
     Text_abc, <<>>, <<"1", ".", "5">>}
FloatDefaults ==
    {<<"1", ".", "0">>, <<"0", ".", "2", "5">>, <<"9", "9", ".", "9", "9">>,
     <<"1", "5", "0", ".", "5">>, <<"-", "1", ".", "5">>, <<"7">>, Text_abc, <<>>}

DefaultParams ==
    {[key |-> "strict", type |-> "Bool", default_value |-> d] : d \in BoolDefaults}
    \cup {[key |-> "count", type |-> "Integer", default_value |-> d] : d \in IntegerDefaults}
    \cup {[key |-> "factor", type |-> "Float", default_value |-> d] : d \in FloatDefaults}

\* One parameter, or two of different types in either order.
DefaultParameterLists ==
    {<<p>> : p \in DefaultParams}
    \cup {<<p, q>> : p \in {x \in DefaultParams : x.type = "Integer"},
                     q \in {x \in DefaultParams : x.type # "Integer"}}
    \cup {<<q, p>> : p \in {x \in DefaultParams : x.type = "Integer"},
                     q \in {x \in DefaultParams : x.type = "Float"}}

InitDefaults ==
    /\ template = CompleteTemplate
    /\ script \in {[key |-> ScriptKey, parameters |-> ps, automatic |-> FALSE] :
                      ps \in DefaultParameterLists}
    /\ presets = <<>>
    /\ settings = [k \in Keys(script) |-> VInvalid]
    /\ ui = NoUI
    /\ panel = NoPanel
    /\ last = [op |-> "init", arg |-> 0]

NextDefaults == New \/ Build

SpecDefaults == InitDefaults /\ [][NextDefaults]_vars

\* The value the claim gives a control whose key has no entry: the parsed
\* default, or the type's zero value when the text does not parse.
HoldsParsedDefault(param, control) ==
    CASE param.type = "Bool" ->
           control.b = (IF ParseBool(param.default_value).ok
                        THEN ParseBool(param.default_value).v ELSE FALSE)
      [] param.type = "Integer" ->
           control.n = (IF ParseI32(param.default_value).ok
                        THEN ParseI32(param.default_value).v ELSE 0)
      [] param.type = "Float" ->
           F32FromHundredths(control.n) =
               (IF ParseF32(param.default_value).ok
                THEN ParseF32(param.default_value).v ELSE F32Zero)

\* C11 (as claimed; refuted): built from a store with no entry for a
\* parameter, the parameter's control, in declaration order, holds the
\* default_value parsed per its type, or the type's zero value when the text
\* does not parse, for every default.
C11_DefaultInitialisation ==
    last.op = "build" =>
        /\ Len(panel.controls) = Len(script.parameters)
        /\ \A i \in 1..Len(script.parameters) :
              LET param == script.parameters[i]
              IN  ~IsValid(Value(settings, ParamSettingKey(GameKey, script.key, param.key)))
                    => HoldsParsedDefault(param, panel.controls[i])

\* C12 (as claimed; refuted): a user change to the control of one parameter
\* writes that parameter's setting only: the enabled setting, the preset
\* setting and the setting of every other parameter of the script keep their
\* values.
C12_KeyIsolation ==
    [][ChangeParam =>
          /\ Value(settings', EnabledKey(GameKey, script.key))
               = Value(settings, EnabledKey(GameKey, script.key))
          /\ Value(settings', PresetKey(GameKey, script.key))
               = Value(settings, PresetKey(GameKey, script.key))
          /\ \A j \in 1..Len(script.parameters) :
                j # last'.arg =>
                   Value(settings', ParamSettingKey(GameKey, script.key, script.parameters[j].key))
                     = Value(settings, ParamSettingKey(GameKey, script.key, script.parameters[j].key))
      ]_vars

\* C13 (as claimed; refuted): after update_icons each of the nine launch
\* options at menu action indices 0 through 8 carries an icon taken from the
\* theme in force, and the scripts-container action after them is untouched.
C13_UpdateIcons ==
    last.op = "icons" =>
        /\ \A index \in 0..8 : ui.icons[index + 1].theme = ui.theme
        /\ ui.icons[10] = NoPixmap

====
